---- MODULE Spec2Model ----
(***************************************************************************)
(* The note-taking client of E-Achiri/workout: the Session Manager         *)
(* (lib/auth.ts, kept in src/unnamed/part_000 lines 1-138), the API Client *)
(* (src/frontend/src/lib/api.ts), the Home page                            *)
(* (src/frontend/src/app/page.tsx) and the login page                      *)
(* (src/unnamed/part_001), together with the collaborators they talk to:   *)
(* the identity provider (amazon-cognito-identity-js and the user pool)    *)
(* and the message server.                                                 *)
(*                                                                         *)
(* Every asynchronous call is a thread that sits at its await until the    *)
(* collaborator answers; everything a handler does between two awaits is   *)
(* one step, as the JavaScript event loop runs it.                         *)
(***************************************************************************)
EXTENDS Integers, Sequences, FiniteSets, TLC

\* ------------------------------------------------------------------ bounds
MaxTime == 2
TokenLife == 1
RefreshLife == 2
MaxMsgs == 1
MaxThreads == 2

Emails == {"a", "b"}
\* What the user types into the login form.
TypedEmails == {"a"}
Passwords == {"p", "q"}
Codes == {"good", "bad"}
Texts == {"x"}

VARIABLES
    account,    \* user pool: email -> "Unregistered" | "Unconfirmed" | "Confirmed"
    pwd,        \* user pool: email -> the password registered, "" when none
    now,        \* the clock, in token lifetimes
    cache,      \* the provider's client-side session cache (local storage)
    msgs,       \* message server: the stored messages, oldest first
    nextId,     \* message server: the next id to assign
    route,      \* the page shown: "/" (Home) or "/login" (LoginPage)
    home,       \* Home's React state
    login,      \* LoginPage's React state
    threads,    \* the asynchronous calls in flight, by slot
    authed,     \* history: "never" signed in, signed "in", or signed "out" since
    ev          \* history: what the last step resolved, in order

vars == <<account, pwd, now, cache, msgs, nextId, route, home, login, threads, authed, ev>>

\* ------------------------------------------------------------------ values
Null == [null |-> TRUE]
Void == [void |-> TRUE]
NullStr == "<null>"
EmptyString == [empty |-> TRUE]

Resolve(v) == [ok |-> TRUE, val |-> v, err |-> Null]
Reject(e) == [ok |-> FALSE, val |-> Null, err |-> e]
Error(name, message) == [name |-> name, message |-> message]

Token(kind, sub, exp) == [kind |-> kind, sub |-> sub, exp |-> exp]

Arg(email, password, code, id, text) ==
    [email |-> email, password |-> password, code |-> code, id |-> id, text |-> text]
NoArg == Arg("", "", "", 0, "")

Idle == [h |-> "idle"]
Slots == 1..MaxThreads

\* ------------------------------------------------ identity provider (Cognito)
\* What the user pool answers to each call of the library, given its accounts.

\* userPool.signUp(email, password, ...): a new account starts unconfirmed.
Pool_signUp(email, password) ==
    IF account[email] = "Unregistered"
    THEN [err |-> Null,
          account |-> [account EXCEPT ![email] = "Unconfirmed"],
          pwd |-> [pwd EXCEPT ![email] = password]]
    ELSE [err |-> Error("UsernameExistsException", "User already exists"),
          account |-> account, pwd |-> pwd]

\* cognitoUser.confirmRegistration(code, true, ...)
Pool_confirmRegistration(email, code) ==
    IF account[email] = "Unconfirmed" /\ code = "good"
    THEN [err |-> Null, account |-> [account EXCEPT ![email] = "Confirmed"]]
    ELSE [err |-> Error(IF account[email] = "Unregistered" THEN "UserNotFoundException"
                        ELSE IF account[email] = "Confirmed" THEN "NotAuthorizedException"
                        ELSE "CodeMismatchException",
                        "Confirmation rejected"),
          account |-> account]

\* The session the pool issues at time `now`; a refresh keeps the refresh token.
NewSession(email, refreshToken) ==
    [idToken |-> Token("id", email, now + TokenLife),
     accessToken |-> Token("access", email, now + TokenLife),
     refreshToken |-> refreshToken]

\* cognitoUser.authenticateUser(details, {onSuccess, onFailure}): on success the
\* library stores the tokens in its cache before it calls onSuccess.
Pool_authenticateUser(email, password) ==
    IF account[email] = "Confirmed" /\ pwd[email] = password
    THEN LET s == NewSession(email, Token("refresh", email, now + RefreshLife))
         IN [err |-> Null, session |-> s, cache |-> [user |-> email, session |-> s]]
    ELSE [err |-> Error(IF account[email] = "Unconfirmed" /\ pwd[email] = password
                        THEN "UserNotConfirmedException" ELSE "NotAuthorizedException",
                        "Incorrect username or password."),
          session |-> Null, cache |-> Null]

\* The pool's answer to the library's refresh request (InitiateAuth with the
\* refresh token): new tokens stored in the cache, or NotAuthorized, on which
\* the library clears its cached user.
Pool_refreshSession(user, refreshToken) ==
    IF now < refreshToken.exp /\ account[user] = "Confirmed"
    THEN LET s == NewSession(user, refreshToken)
         IN [err |-> Null, session |-> s, cache |-> [user |-> user, session |-> s]]
    ELSE [err |-> Error("NotAuthorizedException", "Refresh Token has expired"),
          session |-> Null, cache |-> Null]

\* A validity check that ignores expiry.
isValid_IgnoresExpiry(session) == TRUE

\* session.isValid(): both tokens unexpired on the client's clock.
isValid(session) ==
    now < session.idToken.exp /\ now < session.accessToken.exp

\* userPool.getCurrentUser(): the last authenticated user of the cache, if any.
getCurrentUser(c) ==
    IF c = Null THEN Null ELSE [username |-> c.user]

\* cognitoUser.signOut(): clears the cached user and its tokens.
CognitoUser_signOut(c) == Null

\* getSession refreshing whatever is cached, valid or not.
CognitoUser_getSession_AlwaysRefresh(c) ==
    [kind |-> "refresh", user |-> c.user, refreshToken |-> c.session.refreshToken]

\* cognitoUser.getSession(callback): a valid cached session is handed to the
\* callback at once; an expired one is refreshed with its refresh token first.
CognitoUser_getSession(c) ==
    IF isValid(c.session)
    THEN [kind |-> "callback", err |-> Null, session |-> c.session]
    ELSE IF c.session.refreshToken = EmptyString
    THEN [kind |-> "callback", err |-> Error("Error", "Cannot retrieve a new session"),
          session |-> Null]
    ELSE [kind |-> "refresh", user |-> c.user, refreshToken |-> c.session.refreshToken]

\* ------------------------------------------------------------ Session Manager
AuthTokens(session) ==
    [idToken |-> session.idToken,
     accessToken |-> session.accessToken,
     refreshToken |-> session.refreshToken]

\* signUp's callback: reject(err) or resolve().
signUp_callback(err) ==
    IF err # Null THEN Reject(err) ELSE Resolve(Void)

\* confirmSignUp's callback: reject(err) or resolve().
confirmSignUp_callback(err) ==
    IF err # Null THEN Reject(err) ELSE Resolve(Void)

\* signIn whose onFailure resolves too.
signIn_callback_AlwaysResolves(err, session) ==
    Resolve(IF session = Null THEN Null ELSE AuthTokens(session))

\* signIn's onSuccess / onFailure.
signIn_callback(err, session) ==
    IF err = Null THEN Resolve(AuthTokens(session)) ELSE Reject(err)

\* signOut() with its test inverted: it leaves a cached user signed in.
signOut_Inverted(c) ==
    IF getCurrentUser(c) = Null THEN CognitoUser_signOut(c) ELSE c

\* signOut() that returns without calling the library.
signOut_Skipped(c) == c

\* signOut(): a no-op when no user is cached.
signOut(c) ==
    IF getCurrentUser(c) # Null THEN CognitoUser_signOut(c) ELSE c

\* getCurrentSession's getSession callback: null on an error, a missing or an
\* invalid session, the three tokens otherwise.
getSession_callback(err, session) ==
    IF err # Null \/ session = Null \/ ~isValid(session)
    THEN Null
    ELSE AuthTokens(session)

\* getIdToken() returning the session's access token instead.
getIdToken_AccessToken(session) ==
    IF session = Null THEN Null ELSE session.accessToken

\* getIdToken(): session?.idToken || null
getIdToken(session) ==
    IF session = Null THEN Null
    ELSE IF session.idToken = EmptyString THEN Null
    ELSE session.idToken

\* ----------------------------------------------------------------- JSON, HTTP
Undefined == [t |-> "undefined"]
JNull == [t |-> "null"]
JString(s) == [t |-> "string", s |-> s]
JArray == [t |-> "array"]      \* a non-empty array of objects
JObject(detail, data) == [t |-> "object", detail |-> detail, data |-> data]

\* A response body: text that parses as JSON, or not (empty, HTML, ...).
JsonBody(v) == [parses |-> TRUE, json |-> v]
NoJsonBody == [parses |-> FALSE, json |-> Undefined]

Response(status, body) == [status |-> status, body |-> body]
NoHeader == [absent |-> TRUE]
Bearer(token) == [bearer |-> token]

\* response.ok
response_ok(resp) == resp.status \in 200..299

\* response.json(): rejects when the body is not JSON.
response_json(resp) ==
    IF resp.body.parses THEN Resolve(resp.body.json)
    ELSE Reject(Error("SyntaxError", "Unexpected end of JSON input"))

\* JavaScript's truthiness and string conversion of a JSON value.
Truthy(v) ==
    CASE v.t = "string" -> v.s # ""
      [] v.t \in {"array", "object"} -> TRUE
      [] OTHER -> FALSE
String_of(v) ==
    CASE v.t = "string" -> v.s
      [] OTHER -> "[object Object]"

\* ----------------------------------------------------------------- API Client
\* What each API function passes to request(): the endpoint and the options,
\* with request()'s defaults (method "GET", requireAuth true) filled in.
Options(path, id, method, body, requireAuth) ==
    [endpoint |-> [path |-> path, id |-> id], method |-> method, body |-> body,
     requireAuth |-> requireAuth]

getMe == Options("/auth/me", 0, "GET", Undefined, TRUE)

getMessages == Options("/messages", 0, "GET", Undefined, TRUE)

createMessage(message) == Options("/messages", 0, "POST", [message |-> message], TRUE)

healthCheck == Options("/", 0, "GET", Undefined, FALSE)

\* deleteMessage(id): page.tsx imports it from the API Client; it is the
\* DELETE /messages/{id} instance of request().
deleteMessage(id) == Options("/messages/{id}", id, "DELETE", Undefined, TRUE)

ApiOps == {"getMe", "getMessages", "createMessage", "deleteMessage", "healthCheck"}

ApiCall(op, arg) ==
    CASE op = "getMe" -> getMe
      [] op = "getMessages" -> getMessages
      [] op = "createMessage" -> createMessage(arg.text)
      [] op = "deleteMessage" -> deleteMessage(arg.id)
      [] OTHER -> healthCheck

\* request() without its "Not authenticated" throw: it fetches whatever
\* getIdToken returned.
request_fetch_Unguarded(options, token) ==
    [throw |-> Null,
     request |-> [endpoint |-> options.endpoint,
                  method |-> options.method,
                  headers |-> [ContentType |-> "application/json",
                               Authorization |-> IF options.requireAuth
                                                 THEN Bearer(token)
                                                 ELSE NoHeader],
                  body |-> options.body]]

\* request(), up to its fetch: with requireAuth and no token it throws and
\* fetches nothing; otherwise the token goes into the Authorization header.
request_fetch(options, token) ==
    IF options.requireAuth /\ token = Null
    THEN [throw |-> Error("Error", "Not authenticated"), request |-> Null]
    ELSE [throw |-> Null,
          request |-> [endpoint |-> options.endpoint,
                       method |-> options.method,
                       headers |-> [ContentType |-> "application/json",
                                    Authorization |-> IF options.requireAuth
                                                      THEN Bearer(token)
                                                      ELSE NoHeader],
                       body |-> options.body]]

\* request(), from the response on: a non-ok response throws
\* new Error(error.detail || "Request failed"), error being the parsed body or
\* {detail: "Request failed"} when parsing fails; an ok one returns
\* response.json().
request_response(resp) ==
    IF ~response_ok(resp)
    THEN LET parsed == response_json(resp)
             error == IF parsed.ok THEN parsed.val
                      ELSE JObject(JString("Request failed"), Undefined)
         IN IF error.t = "null"
            THEN Reject(Error("TypeError", "Cannot read properties of null"))
            ELSE LET detail == IF error.t = "object" THEN error.detail ELSE Undefined
                 IN Reject(Error("Error", IF Truthy(detail) THEN String_of(detail)
                                          ELSE "Request failed"))
    ELSE response_json(resp)

\* ------------------------------------------------------------- message server
\* The user a request acts for: the subject of a valid identity token.
Server_caller(req) ==
    LET a == req.headers.Authorization
    IN IF a # NoHeader /\ a.bearer # Null /\ a.bearer.kind = "id" /\ now < a.bearer.exp
          /\ account[a.bearer.sub] = "Confirmed"
       THEN a.bearer.sub ELSE ""

RECURSIVE Server_list(_, _)
\* The caller's messages of `stored`, most recent first, as the client sees them.
Server_list(stored, caller) ==
    IF stored = <<>> THEN <<>>
    ELSE LET m == stored[Len(stored)]
             rest == Server_list(SubSeq(stored, 1, Len(stored) - 1), caller)
         IN IF m.owner = caller
            THEN <<[id |-> m.id, message |-> m.message, created_at |-> m.created_at]>> \o rest
            ELSE rest

Server_error(status, detail) ==
    [resp |-> Response(status, JsonBody(JObject(JString(detail), Undefined))),
     msgs |-> msgs, nextId |-> nextId]

Trim(text) == IF text = " " THEN "" ELSE text

\* The server's answer to a request and its store afterwards. A successful
\* DELETE has no required body: `bodyless` says whether it sends none.
Server_handle(req, bodyless) ==
    LET caller == Server_caller(req)
        path == req.endpoint.path
    IN  IF path = "/"
        THEN [resp |-> Response(200, JsonBody(JObject(Undefined, [status |-> "ok"]))),
              msgs |-> msgs, nextId |-> nextId]
        ELSE IF caller = "" THEN Server_error(401, "Invalid token")
        ELSE IF path = "/auth/me"
        THEN [resp |-> Response(200, JsonBody(JObject(Undefined, [email |-> caller]))),
              msgs |-> msgs, nextId |-> nextId]
        ELSE IF path = "/messages" /\ req.method = "GET"
        THEN [resp |-> Response(200, JsonBody(JObject(Undefined,
                                   [messages |-> Server_list(msgs, caller)]))),
              msgs |-> msgs, nextId |-> nextId]
        ELSE IF path = "/messages" /\ req.method = "POST"
        THEN IF Trim(req.body.message) = ""
             THEN Server_error(400, "Message cannot be empty")
             ELSE LET m == [id |-> nextId, owner |-> caller,
                            message |-> req.body.message, created_at |-> nextId]
                  IN [resp |-> Response(200, JsonBody(JObject(Undefined,
                                   [id |-> m.id, message |-> m.message,
                                    created_at |-> m.created_at]))),
                      msgs |-> Append(msgs, m), nextId |-> nextId + 1]
        ELSE IF \E i \in 1..Len(msgs) : msgs[i].id = req.endpoint.id /\ msgs[i].owner = caller
        THEN [resp |-> IF bodyless THEN Response(204, NoJsonBody)
                       ELSE Response(200, JsonBody(JObject(Undefined, [status |-> "deleted"]))),
              msgs |-> SelectSeq(msgs, LAMBDA m : m.id # req.endpoint.id),
              nextId |-> nextId]
        ELSE Server_error(404, "Message not found")

\* ---------------------------------------------------------------- page state
HomeInit ==
    [text |-> "", messages |-> <<>>, user |-> Null, loading |-> FALSE,
     loadingMessages |-> FALSE, error |-> NullStr, isAuthenticated |-> "null"]

LoginInit ==
    [mode |-> "signin", email |-> "", password |-> "", confirmCode |-> "",
     error |-> NullStr, loading |-> FALSE]

\* router.push(to): the page shown is unmounted and `to` mounts with fresh state.
router_push(W, to) ==
    [W EXCEPT !.route = to, !.home = HomeInit, !.login = LoginInit]

\* fetchMessages, up to its await: setLoadingMessages(true); setError(null).
fetchMessages_begin(hm) ==
    [hm EXCEPT !.loadingMessages = TRUE, !.error = NullStr]

\* fetchMessages, after getMessages settled: setMessages(data.messages || [])
\* or setError(err.message), and finally setLoadingMessages(false).
fetchMessages_end(hm, res) ==
    IF res.ok
    THEN [hm EXCEPT !.messages = res.val.data.messages, !.loadingMessages = FALSE]
    ELSE [hm EXCEPT !.error = res.err.message, !.loadingMessages = FALSE]

\* handleDelete that never touches the list.
handleDelete_end_NoRemoval(hm, id, res) ==
    IF res.ok THEN hm ELSE [hm EXCEPT !.error = res.err.message]

\* handleDelete removing the message whether or not deleteMessage succeeded.
handleDelete_end_Optimistic(hm, id, res) ==
    LET removed == [hm EXCEPT !.messages = SelectSeq(@, LAMBDA m : m.id # id)]
    IN IF res.ok THEN removed ELSE [removed EXCEPT !.error = res.err.message]

\* handleDelete, after deleteMessage settled: the message is filtered out of
\* the list on success; on failure only the error is set.
handleDelete_end(hm, id, res) ==
    IF res.ok
    THEN [hm EXCEPT !.messages = SelectSeq(@, LAMBDA m : m.id # id)]
    ELSE [hm EXCEPT !.error = res.err.message]

\* What a Home handler does when the call it awaits settles: the new state,
\* the next call it makes ("done" when it returns) and where it navigates.
HomeCont(h, op, arg, res, hm) ==
    CASE h = "checkAuth" /\ op = "getCurrentSession" ->
            IF res.val = Null
            THEN [home |-> hm, next |-> "done", nav |-> "/login"]
            ELSE [home |-> [hm EXCEPT !.isAuthenticated = "true"],
                  next |-> "getMe", nav |-> ""]
      [] h = "checkAuth" /\ op = "getMe" ->
            IF res.ok
            THEN [home |-> fetchMessages_begin([hm EXCEPT !.user = res.val.data]),
                  next |-> "getMessages", nav |-> ""]
            ELSE [home |-> [hm EXCEPT !.error = "Failed to load user info"],
                  next |-> "done", nav |-> ""]
      [] h = "handleSubmit" /\ op = "createMessage" ->
            IF res.ok
            THEN [home |-> fetchMessages_begin([hm EXCEPT !.text = ""]),
                  next |-> "getMessages", nav |-> ""]
            ELSE [home |-> [hm EXCEPT !.error = res.err.message, !.loading = FALSE],
                  next |-> "done", nav |-> ""]
      [] h = "handleSubmit" /\ op = "getMessages" ->
            [home |-> [fetchMessages_end(hm, res) EXCEPT !.loading = FALSE],
             next |-> "done", nav |-> ""]
      [] h = "handleDelete" ->
            [home |-> handleDelete_end(hm, arg.id, res), next |-> "done", nav |-> ""]
      [] OTHER ->
            [home |-> fetchMessages_end(hm, res), next |-> "done", nav |-> ""]

\* The same for the login page's handlers.
LoginCont(h, op, arg, res, lg) ==
    CASE h = "handleSignUp" ->
            IF res.ok
            THEN [login |-> [lg EXCEPT !.mode = "confirm", !.loading = FALSE],
                  next |-> "done", nav |-> ""]
            ELSE [login |-> [lg EXCEPT !.error = res.err.message, !.loading = FALSE],
                  next |-> "done", nav |-> ""]
      [] h = "handleConfirm" /\ op = "confirmSignUp" /\ res.ok ->
            [login |-> lg, next |-> "signIn", nav |-> ""]
      [] OTHER ->
            IF res.ok
            THEN [login |-> [lg EXCEPT !.loading = FALSE], next |-> "done", nav |-> "/"]
            ELSE [login |-> [lg EXCEPT !.error = res.err.message, !.loading = FALSE],
                  next |-> "done", nav |-> ""]

HomeHandlers == {"checkAuth", "fetchMessages", "handleSubmit", "handleDelete"}
LoginHandlers == {"handleSignIn", "handleSignUp", "handleConfirm"}

\* A handler resumes after its await: its state updates, then its navigation.
Cont(t, res, W) ==
    IF t.h \in HomeHandlers
    THEN LET c == HomeCont(t.h, t.op, t.arg, res, W.home)
             W1 == [W EXCEPT !.home = c.home]
         IN [W |-> IF c.nav # "" THEN router_push(W1, c.nav) ELSE W1, next |-> c.next]
    ELSE IF t.h \in LoginHandlers
    THEN LET c == LoginCont(t.h, t.op, t.arg, res, W.login)
             W1 == [W EXCEPT !.login = c.login]
         IN [W |-> IF c.nav # "" THEN router_push(W1, c.nav) ELSE W1, next |-> c.next]
    ELSE [W |-> W, next |-> "done"]

\* ------------------------------------------------------------------- threads
NewThread(h, op, arg) ==
    [h |-> h, op |-> op, arg |-> arg, st |-> "start",
     sess |-> Undefined, req |-> Null, resp |-> Null, refresh |-> Null]

ProviderOps == {"signUp", "confirmSignUp", "signIn"}

SessionEvent(t, sess) ==
    [type |-> "session", h |-> t.h, op |-> t.op, val |-> sess, at |-> now,
     authed |-> authed, before |-> cache]

CallEvent(t, res) ==
    [type |-> "call", h |-> t.h, op |-> t.op, arg |-> t.arg, res |-> res,
     sess |-> t.sess, req |-> t.req, resp |-> t.resp, before |-> cache]

\* signOut() returned (it cannot throw); `before` is the cache it found.
SignOutEvent(h, before) ==
    [type |-> "call", h |-> h, op |-> "signOut", arg |-> NoArg, res |-> Resolve(Void),
     sess |-> Undefined, req |-> Null, resp |-> Null, before |-> before]

World == [cache |-> cache, route |-> route, home |-> home, login |-> login, evs |-> <<>>]

RECURSIVE Launch(_, _)
RECURSIVE AfterSession(_, _, _)
RECURSIVE Complete(_, _, _)

\* A call starts. The identity calls go to the pool; a request() without
\* requireAuth fetches at once; every other call first runs getCurrentSession,
\* which settles at once unless the cached session has to be refreshed.
Launch(t, W) ==
    IF t.op \in ProviderOps
    THEN [th |-> [t EXCEPT !.st = "provider"], W |-> W]
    ELSE IF t.op \in ApiOps /\ ~ApiCall(t.op, t.arg).requireAuth
    THEN [th |-> [t EXCEPT !.st = "sent",
                           !.req = request_fetch(ApiCall(t.op, t.arg), Null).request],
          W |-> W]
    ELSE IF getCurrentUser(W.cache) = Null
    THEN AfterSession(t, Null, W)
    ELSE LET q == CognitoUser_getSession(W.cache)
         IN IF q.kind = "refresh"
            THEN [th |-> [t EXCEPT !.st = "refresh",
                                   !.refresh = [user |-> q.user,
                                                refreshToken |-> q.refreshToken]],
                  W |-> W]
            ELSE AfterSession(t, getSession_callback(q.err, q.session), W)

\* getCurrentSession resolved with `sess`: getCurrentSession and getIdToken
\* return; request() throws or fetches.
AfterSession(t, sess, W) ==
    LET W1 == [W EXCEPT !.evs = Append(@, SessionEvent(t, sess))]
        t1 == [t EXCEPT !.sess = sess]
    IN  IF t.op = "getCurrentSession" THEN Complete(t1, Resolve(sess), W1)
        ELSE IF t.op = "getIdToken" THEN Complete(t1, Resolve(getIdToken(sess)), W1)
        ELSE LET f == request_fetch(ApiCall(t.op, t.arg), getIdToken(sess))
             IN IF f.throw # Null
                THEN Complete(t1, Reject(f.throw), W1)
                ELSE [th |-> [t1 EXCEPT !.st = "sent", !.req = f.request], W |-> W1]

\* A call settled with `res`: its handler resumes and may start its next call.
Complete(t, res, W) ==
    LET W1 == [W EXCEPT !.evs = Append(@, CallEvent(t, res))]
        c == Cont(t, res, W1)
    IN  IF c.next = "done"
        THEN [th |-> Idle, W |-> c.W]
        ELSE Launch(NewThread(t.h, c.next, t.arg), c.W)

\* The step's outcome `out` for slot i becomes the next state. A navigation
\* unmounts the page that was left: the calls its other handlers still await
\* are abandoned, since what they return can reach no mounted component; what
\* they would still do to the server or the cache is left out with them.
Apply(i, out) ==
    /\ threads' = [j \in Slots |->
                     IF j = i THEN out.th
                     ELSE IF out.W.route # route THEN Idle
                     ELSE threads[j]]
    /\ cache' = out.W.cache
    /\ route' = out.W.route
    /\ home' = out.W.home
    /\ login' = out.W.login
    /\ ev' = out.W.evs

FreeSlot == CHOOSE i \in Slots : threads[i] = Idle /\ \A j \in 1..(i - 1) : threads[j] # Idle
HasFreeSlot == \E i \in Slots : threads[i] = Idle

\* ------------------------------------------------- collaborators' steps
\* The clock advances.
Tick ==
    /\ now < MaxTime
    /\ now' = now + 1
    /\ ev' = <<>>
    /\ UNCHANGED <<account, pwd, cache, msgs, nextId, route, home, login, threads, authed>>

\* The pool answers an identity call and the library runs its callback.
ProviderReturn(i) ==
    /\ threads[i] # Idle
    /\ threads[i].st = "provider"
    /\ LET t == threads[i]
           a == t.arg
       IN CASE t.op = "signUp" ->
                 LET r == Pool_signUp(a.email, a.password)
                 IN /\ account' = r.account
                    /\ pwd' = r.pwd
                    /\ authed' = authed
                    /\ Apply(i, Complete(t, signUp_callback(r.err), World))
            [] t.op = "confirmSignUp" ->
                 LET r == Pool_confirmRegistration(a.email, a.code)
                 IN /\ account' = r.account
                    /\ pwd' = pwd
                    /\ authed' = authed
                    /\ Apply(i, Complete(t, confirmSignUp_callback(r.err), World))
            [] OTHER ->
                 LET r == Pool_authenticateUser(a.email, a.password)
                 IN /\ account' = account
                    /\ pwd' = pwd
                    /\ authed' = IF r.err = Null THEN "in" ELSE authed
                    /\ Apply(i, Complete(t, signIn_callback(r.err, r.session),
                                         [World EXCEPT !.cache = IF r.err = Null
                                                                 THEN r.cache ELSE cache]))
    /\ UNCHANGED <<now, msgs, nextId>>

\* The pool answers the library's refresh; getSession's callback runs.
RefreshReturn(i) ==
    /\ threads[i] # Idle
    /\ threads[i].st = "refresh"
    /\ LET t == threads[i]
           r == Pool_refreshSession(t.refresh.user, t.refresh.refreshToken)
       IN Apply(i, AfterSession(t, getSession_callback(r.err, r.session),
                                [World EXCEPT !.cache = r.cache]))
    /\ UNCHANGED <<account, pwd, now, msgs, nextId, authed>>

\* The message server handles a request that was sent.
ServerRespond(i, bodyless) ==
    /\ threads[i] # Idle
    /\ threads[i].st = "sent"
    /\ threads[i].req.method = "POST" => nextId <= MaxMsgs
    /\ LET s == Server_handle(threads[i].req, bodyless)
       IN /\ threads' = [threads EXCEPT ![i].st = "responded", ![i].resp = s.resp]
          /\ msgs' = s.msgs
          /\ nextId' = s.nextId
    /\ ev' = <<>>
    /\ UNCHANGED <<account, pwd, now, cache, route, home, login, authed>>

\* Bodies of error responses that are not the server's {detail: string}.
OddBodies ==
    {NoJsonBody, JsonBody(JNull), JsonBody(JObject(Undefined, [message |-> "Forbidden"])),
     JsonBody(JObject(JString(""), Undefined)), JsonBody(JObject(JArray, Undefined))}

\* Something between client and server (the gateway, the framework's own
\* validation) answers the request with an error instead.
ErrorResponse(i, body) ==
    /\ threads[i] # Idle
    /\ threads[i].st = "sent"
    /\ threads' = [threads EXCEPT ![i].st = "responded", ![i].resp = Response(502, body)]
    /\ ev' = <<>>
    /\ UNCHANGED <<account, pwd, now, cache, msgs, nextId, route, home, login, authed>>

\* The response reaches request(), which returns or throws.
Deliver(i) ==
    /\ threads[i] # Idle
    /\ threads[i].st = "responded"
    /\ Apply(i, Complete(threads[i], request_response(threads[i].resp), World))
    /\ UNCHANGED <<account, pwd, now, msgs, nextId, authed>>

Init ==
    /\ account = [e \in Emails |-> "Unregistered"]
    /\ pwd = [e \in Emails |-> ""]
    /\ now = 0
    /\ cache = Null
    /\ msgs = <<>>
    /\ nextId = 1
    /\ route = "/"
    /\ home = HomeInit
    /\ login = LoginInit
    /\ threads = [i \in Slots |-> Idle]
    /\ authed = "never"
    /\ ev = <<>>

Collaborators(bodies) ==
    \/ Tick
    \/ \E i \in Slots : ProviderReturn(i)
    \/ \E i \in Slots : RefreshReturn(i)
    \/ \E i \in Slots, bodyless \in BOOLEAN : ServerRespond(i, bodyless)
    \/ \E i \in Slots, body \in bodies : ErrorResponse(i, body)
    \/ \E i \in Slots : Deliver(i)

\* ------------------------------------------- the operations called in sequence
\* A caller invokes one operation of the Session Manager or the API Client and
\* awaits it before the next.
Quiet == \A i \in Slots : threads[i] = Idle

Call(op, arg) ==
    /\ Quiet
    /\ Apply(1, Launch(NewThread("direct", op, arg), World))
    /\ UNCHANGED <<account, pwd, now, msgs, nextId, authed>>

Call_signUp == \E e \in Emails, p \in Passwords : Call("signUp", Arg(e, p, "", 0, ""))
Call_confirmSignUp == \E e \in Emails, c \in Codes : Call("confirmSignUp", Arg(e, "", c, 0, ""))
Call_signIn == \E e \in Emails, p \in Passwords : Call("signIn", Arg(e, p, "", 0, ""))
Call_getCurrentSession == Call("getCurrentSession", NoArg)
Call_getIdToken == Call("getIdToken", NoArg)
Call_getMe == Call("getMe", NoArg)
Call_getMessages == Call("getMessages", NoArg)
Call_createMessage == \E x \in Texts \cup {" "} : Call("createMessage", Arg("", "", "", 0, x))
Call_deleteMessage == \E id \in 1..MaxMsgs : Call("deleteMessage", Arg("", "", "", id, ""))
Call_healthCheck == Call("healthCheck", NoArg)

Call_signOut ==
    /\ Quiet
    /\ cache' = signOut(cache)
    /\ authed' = IF authed = "never" THEN "never" ELSE "out"
    /\ ev' = <<SignOutEvent("direct", cache)>>
    /\ UNCHANGED <<account, pwd, now, msgs, nextId, route, home, login, threads>>

ApiNext ==
    \/ Call_signUp
    \/ Call_confirmSignUp
    \/ Call_signIn
    \/ Call_signOut
    \/ Call_getCurrentSession
    \/ Call_getIdToken
    \/ Call_getMe
    \/ Call_getMessages
    \/ Call_createMessage
    \/ Call_deleteMessage
    \/ Call_healthCheck
    \/ Collaborators(OddBodies)

ApiSpec == Init /\ [][ApiNext]_vars

\* ------------------------------------------------------------------ Home page
\* Home rendering its form, buttons and list without waiting for checkAuth.
HomeRendered_NoGuard == route = "/"

\* Home renders its form, buttons and list once isAuthenticated is not null.
HomeRendered == route = "/" /\ home.isAuthenticated # "null"

\* A handler of the page shown starts in a free slot, after the state updates
\* it makes before its first await.
Start(h, op, arg, W) ==
    /\ HasFreeSlot
    /\ Apply(FreeSlot, Launch(NewThread(h, op, arg), W))
    /\ UNCHANGED <<account, pwd, now, msgs, nextId, authed>>

\* useEffect(() => { checkAuth(); }, []): runs once when Home has mounted.
checkAuth ==
    /\ route = "/"
    /\ home.isAuthenticated = "null"
    /\ \A i \in Slots : threads[i] # Idle => threads[i].h # "checkAuth"
    /\ Start("checkAuth", "getCurrentSession", NoArg, World)

\* onChange of the text input.
setText ==
    /\ HomeRendered
    /\ \E x \in Texts \cup {""} :
        /\ x # home.text
        /\ home' = [home EXCEPT !.text = x]
    /\ ev' = <<>>
    /\ UNCHANGED <<account, pwd, now, cache, msgs, nextId, route, login, threads, authed>>

\* The Refresh button (disabled while loadingMessages).
fetchMessages ==
    /\ HomeRendered
    /\ ~home.loadingMessages
    /\ Start("fetchMessages", "getMessages", NoArg,
             [World EXCEPT !.home = fetchMessages_begin(home)])

\* The form's submit (its button is disabled while loading); nothing happens
\* when the text is blank.
handleSubmit ==
    /\ HomeRendered
    /\ ~home.loading
    /\ Trim(home.text) # ""
    /\ Start("handleSubmit", "createMessage", Arg("", "", "", 0, home.text),
             [World EXCEPT !.home = [home EXCEPT !.loading = TRUE, !.error = NullStr]])

\* The delete button of a displayed message, or a swipe past the threshold.
handleDelete ==
    /\ HomeRendered
    /\ \E k \in 1..Len(home.messages) :
        Start("handleDelete", "deleteMessage",
              Arg("", "", "", home.messages[k].id, ""), World)

\* The Sign out button: await signOut(); router.push("/login").
handleSignOut ==
    /\ HomeRendered
    /\ authed' = IF authed = "never" THEN "never" ELSE "out"
    /\ threads' = [j \in Slots |-> Idle]
    /\ LET W == router_push([World EXCEPT !.cache = signOut(cache)], "/login")
       IN /\ cache' = W.cache
          /\ route' = W.route
          /\ home' = W.home
          /\ login' = W.login
    /\ ev' = <<SignOutEvent("handleSignOut", cache)>>
    /\ UNCHANGED <<account, pwd, now, msgs, nextId>>

\* ----------------------------------------------------------------- login page
\* onChange of the email and password inputs (rendered in signin and signup
\* mode) and of the confirmation code input (rendered in confirm mode).
setEmail ==
    /\ route = "/login"
    /\ login.mode \in {"signin", "signup"}
    /\ \E e \in TypedEmails : e # login.email /\ login' = [login EXCEPT !.email = e]
    /\ ev' = <<>>
    /\ UNCHANGED <<account, pwd, now, cache, msgs, nextId, route, home, threads, authed>>

setPassword ==
    /\ route = "/login"
    /\ login.mode \in {"signin", "signup"}
    /\ \E p \in Passwords : p # login.password /\ login' = [login EXCEPT !.password = p]
    /\ ev' = <<>>
    /\ UNCHANGED <<account, pwd, now, cache, msgs, nextId, route, home, threads, authed>>

setConfirmCode ==
    /\ route = "/login"
    /\ login.mode = "confirm"
    /\ \E c \in Codes : c # login.confirmCode /\ login' = [login EXCEPT !.confirmCode = c]
    /\ ev' = <<>>
    /\ UNCHANGED <<account, pwd, now, cache, msgs, nextId, route, home, threads, authed>>

\* The two links under the form: to signup from signin, to signin otherwise.
setMode ==
    /\ route = "/login"
    /\ login' = [login EXCEPT !.mode = IF login.mode = "signin" THEN "signup" ELSE "signin"]
    /\ ev' = <<>>
    /\ UNCHANGED <<account, pwd, now, cache, msgs, nextId, route, home, threads, authed>>

\* A form is submitted only with its required inputs filled and its button
\* enabled (not loading); the handler then clears the error and sets loading.
CanSubmit(mode) ==
    /\ route = "/login"
    /\ login.mode = mode
    /\ ~login.loading

Submitting == [World EXCEPT !.login = [login EXCEPT !.error = NullStr, !.loading = TRUE]]

handleSignIn ==
    /\ CanSubmit("signin")
    /\ login.email # "" /\ login.password # ""
    /\ Start("handleSignIn", "signIn", Arg(login.email, login.password, "", 0, ""), Submitting)

handleSignUp ==
    /\ CanSubmit("signup")
    /\ login.email # "" /\ login.password # ""
    /\ Start("handleSignUp", "signUp", Arg(login.email, login.password, "", 0, ""), Submitting)

handleConfirm ==
    /\ CanSubmit("confirm")
    /\ login.confirmCode # ""
    /\ Start("handleConfirm", "confirmSignUp",
             Arg(login.email, login.password, login.confirmCode, 0, ""), Submitting)

Next ==
    \/ checkAuth
    \/ setText
    \/ fetchMessages
    \/ handleSubmit
    \/ handleDelete
    \/ handleSignOut
    \/ setEmail
    \/ setPassword
    \/ setConfirmCode
    \/ setMode
    \/ handleSignIn
    \/ handleSignUp
    \/ handleConfirm
    \/ Collaborators({NoJsonBody})

Spec == Init /\ [][Next]_vars

\* ===================================================================== claims
\* The events of the last step that are settled calls / resolved sessions.
Calls == {ev[k] : k \in {j \in 1..Len(ev) : ev[j].type = "call"}}
Sessions == {ev[k] : k \in {j \in 1..Len(ev) : ev[j].type = "session"}}

\* The calls in flight.
InFlight == {threads[i] : i \in {j \in Slots : threads[j] # Idle}}

\* The API functions that go through request() with requireAuth.
AuthOps == {"getMe", "getMessages", "createMessage", "deleteMessage"}

\* C1: an API call that requires authentication and is made while
\* getCurrentSession yields no session (hence no identity token) fails with
\* the error "Not authenticated", and no request is ever sent for it.
C1_NotAuthenticated ==
    /\ \A e \in Calls :
          (e.op \in AuthOps /\ e.sess = Null) =>
              /\ ~e.res.ok
              /\ e.res.err.message = "Not authenticated"
              /\ e.req = Null
    /\ \A t \in InFlight :
          (t.op \in AuthOps /\ t.st \in {"sent", "responded"}) =>
              t.sess \notin {Null, Undefined}

\* C1's case: after a sign-out an authenticated call was made without a session and
\* threw.
C1_Witness ==
    \E e \in Calls :
        /\ e.op \in {"getMe", "createMessage"}
        /\ e.sess = Null
        /\ e.res.err.message = "Not authenticated"
        /\ authed = "out"

\* C2: every request sent for an authenticated call carries
\* Authorization: Bearer t, t being the identity token of the session that
\* getCurrentSession returned for that very call; healthCheck is the only
\* operation whose request is sent without a session and without the header.
C2_Sent(t) ==
    /\ t.op \in AuthOps =>
          /\ t.sess \notin {Null, Undefined}
          /\ t.req.headers.Authorization = Bearer(t.sess.idToken)
    /\ (t.sess = Undefined \/ t.req.headers.Authorization = NoHeader) <=>
          t.op = "healthCheck"

C2_BearerToken ==
    /\ \A t \in InFlight : t.st \in {"sent", "responded"} => C2_Sent(t)
    /\ \A e \in Calls : e.req # Null => C2_Sent(e)

\* C2's case: an authenticated call settled after its request went out with
\* the token of a session that had been refreshed for it.
C2_Witness ==
    \E e \in Calls :
        /\ e.op = "createMessage"
        /\ e.req # Null
        /\ e.req.headers.Authorization = Bearer(e.sess.idToken)
        /\ e.sess.idToken.exp + RefreshLife > e.sess.refreshToken.exp + TokenLife

\* C3 (as stated): whenever the server answers with a non-2xx status the call
\* fails with a normalized error whose message is the payload's detail
\* string when the body parses as a structured error payload, and "Request
\* failed" whenever the body cannot be parsed or carries no usable detail; no
\* other kind of failure is produced for a response with a status.
C3_Message(resp) ==
    IF /\ resp.body.parses
       /\ resp.body.json.t = "object"
       /\ resp.body.json.detail.t = "string"
       /\ resp.body.json.detail.s # ""
    THEN resp.body.json.detail.s
    ELSE "Request failed"

C3_NormalizedError ==
    \A e \in Calls :
        (e.resp # Null /\ e.resp.status \notin 200..299) =>
            /\ ~e.res.ok
            /\ e.res.err.name = "Error"
            /\ e.res.err.message = C3_Message(e.resp)

\* C4 (as stated): a response with a 2xx status always makes the call succeed,
\* also when a DELETE is answered without a body; after a delete answered 2xx
\* the message is gone from the list Home displays.
C4_SuccessOn2xx ==
    \A e \in Calls :
        (e.resp # Null /\ e.resp.status \in 200..299) =>
            /\ e.res.ok
            /\ e.h = "handleDelete" =>
                  \A k \in 1..Len(home.messages) : home.messages[k].id # e.arg.id

C6_Step ==
    \A e \in Calls' :
        e.op = "signOut" =>
            /\ e.res.ok
            /\ cache' = Null
            /\ cache = Null =>
                  UNCHANGED <<account, pwd, now, cache, msgs, nextId, route, home,
                              login, threads>>

C6_SignOutIdempotent == [][C6_Step]_vars

\* C6's case: signOut returned after it was called with no session in the
\* cache, an earlier signOut having ended a signed-in session.
C6_Witness ==
    \E e \in Calls :
        /\ e.op = "signOut"
        /\ e.before = Null
        /\ authed = "out"
        /\ cache = Null

\* C7: a session that getCurrentSession yields (to its caller, to getIdToken
\* or to an authenticated request) holds all three tokens, and its identity
\* token is unexpired at that moment; an expired cached session is refreshed
\* first or no session is yielded.
C7_UnexpiredTokens ==
    /\ \A e \in Sessions :
          e.val # Null =>
              /\ e.val.idToken.kind = "id"
              /\ e.val.accessToken.kind = "access"
              /\ e.val.refreshToken.kind = "refresh"
              /\ now < e.val.idToken.exp
    /\ \A e \in Calls :
          (e.op = "getIdToken" /\ e.res.val # Null) => now < e.res.val.exp
    /\ \A t \in InFlight :
          (t.op \in AuthOps /\ t.st = "sent" /\ Sessions # {}) =>
              now < t.req.headers.Authorization.bearer.exp

\* C7's case: the cached session had expired and getCurrentSession yielded
\* the session the refresh brought.
C7_Witness ==
    \E e \in Sessions :
        /\ e.val # Null
        /\ e.val.idToken.exp + RefreshLife > e.val.refreshToken.exp + TokenLife

\* C8: an account only moves Unregistered -> Unconfirmed, by a successful
\* signUp, and Unconfirmed -> Confirmed, by a successful confirmSignUp; no
\* operation moves it back, and signIn yields a session only for a Confirmed
\* account.
C8_Succeeded(op, email) ==
    \E e \in Calls : e.op = op /\ e.res.ok /\ e.arg.email = email

C8_Step ==
    \A e \in Emails :
        /\ account'[e] # account[e] =>
              \/ /\ account[e] = "Unregistered"
                 /\ account'[e] = "Unconfirmed"
                 /\ C8_Succeeded("signUp", e)'
              \/ /\ account[e] = "Unconfirmed"
                 /\ account'[e] = "Confirmed"
                 /\ C8_Succeeded("confirmSignUp", e)'
        /\ C8_Succeeded("signUp", e)' =>
              account[e] = "Unregistered" /\ account'[e] = "Unconfirmed"
        /\ C8_Succeeded("confirmSignUp", e)' =>
              account[e] = "Unconfirmed" /\ account'[e] = "Confirmed"
        /\ C8_Succeeded("signIn", e)' =>
              account[e] = "Confirmed" /\ account'[e] = "Confirmed"

C8_AccountLifecycle == [][C8_Step]_vars

\* C8's case: one account went all the way and signed in while another is
\* still unconfirmed.
C8_Witness ==
    /\ account["a"] = "Confirmed"
    /\ account["b"] = "Unconfirmed"
    /\ C8_Succeeded("signIn", "a")

\* C9 (as stated): signIn with the credentials of a confirmed sign-up
\* succeeds and caches the session; the login page's automatic sign-in after
\* a successful confirmation uses the email and password the sign-up was
\* accepted with, so it succeeds and navigates to "/".
C9_RoundTrip ==
    \A e \in Calls :
        e.op = "signIn" =>
            /\ (account[e.arg.email] = "Confirmed" /\ pwd[e.arg.email] = e.arg.password) =>
                  /\ e.res.ok
                  /\ cache # Null
                  /\ cache.user = e.arg.email
            /\ e.h = "handleConfirm" =>
                  /\ e.arg.password = pwd[e.arg.email]
                  /\ e.res.ok
                  /\ route = "/"

\* C10: when deleteMessage fails (the server rejects it, or no request could
\* be made), handleDelete shows the error's message and the displayed list
\* stays exactly as it was.
C10_Step ==
    \A e \in Calls' :
        (e.h = "handleDelete" /\ ~e.res.ok) =>
            /\ home'.messages = home.messages
            /\ home'.error = e.res.err.message
            /\ home'.error # NullStr

C10_FailedDeleteKeepsList == [][C10_Step]_vars

\* C10's case: the server answered 404 to the delete of a message that Home
\* still displays, and the message is still displayed with the error.
C10_Witness ==
    \E e \in Calls :
        /\ e.h = "handleDelete"
        /\ e.resp # Null
        /\ e.resp.status = 404
        /\ home.error = "Message not found"
        /\ \E k \in 1..Len(home.messages) : home.messages[k].id = e.arg.id

\* C11 (as stated): on handleDelete(id) the item is removed from the displayed
\* list at once, before the server answers; when the delete then fails the
\* error is shown and the item stays absent.
C11_Absent(id) == \A k \in 1..Len(home.messages) : home.messages[k].id # id

C11_Started ==
    \E i \in Slots :
        /\ threads[i] = Idle
        /\ threads'[i] # Idle
        /\ threads'[i].h = "handleDelete"

C11_Step ==
    /\ C11_Started => home'.messages = home.messages
    /\ \A t \in InFlight' : t.h = "handleDelete" => t.op = "deleteMessage"
    /\ \A e \in Calls' :
          e.h = "handleDelete" =>
              /\ e.op = "deleteMessage"
              /\ home'.messages =
                    IF e.res.ok
                    THEN SelectSeq(home.messages, LAMBDA m : m.id # e.arg.id)
                    ELSE home.messages
              /\ ~e.res.ok => home'.error = e.res.err.message

C12_Settled ==
    /\ route = "/"
    /\ home.isAuthenticated = "true"
    /\ InFlight = {}
    /\ home.error = NullStr
    /\ cache # Null

C12_ListMatchesServer ==
    /\ C12_Settled => home.messages = Server_list(msgs, cache.user)
    /\ \A e \in Calls :
          (e.h = "handleSubmit" /\ e.op = "createMessage" /\ e.res.ok) =>
              \/ \E t \in InFlight : t.h = "handleSubmit" /\ t.op = "getMessages"
              \/ \E f \in Calls : f.h = "handleSubmit" /\ f.op = "getMessages"

\* C13 (as stated): at any moment at most one authenticated API call started
\* by Home's handlers (checkAuth, fetchMessages, handleSubmit, handleDelete)
\* is in flight, so no two of them query or refresh the session at once.
C13_Pending ==
    {i \in Slots : /\ threads[i] # Idle
                   /\ threads[i].h \in HomeHandlers
                   /\ threads[i].op \in AuthOps}

C13_OneCallInFlight ==
    /\ Cardinality(C13_Pending) <= 1
    /\ Cardinality({i \in C13_Pending : threads[i].st = "refresh"}) <= 1

\* C14 (as stated): the session cache is changed only by signIn and signOut;
\* signUp, confirmSignUp, getCurrentSession, getIdToken and every API Client
\* call leave it as they found it, whether they succeed or fail.
C14_OnlySignInAndSignOut ==
    /\ \A e \in Sessions : e.before = cache
    /\ \A e \in Calls : e.op \notin {"signIn", "signOut"} => e.before = cache

\* C14 (amended): the session cache is changed only by a successful signIn
\* (which caches the session it resolves with), by signOut (which empties
\* it), and by a getCurrentSession (called directly, by getIdToken or by an
\* authenticated API call) whose cached session had expired: the provider's
\* refresh then stores the refreshed tokens of the same user, or empties the
\* cache when the refresh is refused. signUp, confirmSignUp, healthCheck and a
\* failed signIn leave the cache unchanged.
C14_Refreshed ==
    \E t \in InFlight :
        /\ t.st = "refresh"
        /\ t.op \in AuthOps \cup {"getCurrentSession", "getIdToken"}
        /\ \E e \in Sessions' : e.op = t.op /\ e.before = cache
        /\ \/ cache' = Null
           \/ /\ cache'.user = t.refresh.user
              /\ cache'.session.refreshToken = t.refresh.refreshToken

C14_RefreshStarts ==
    \A i \in Slots :
        (threads'[i] # Idle /\ threads'[i].st = "refresh" /\ threads'[i] # threads[i]) =>
            /\ cache # Null
            /\ now >= cache.session.idToken.exp
            /\ cache' = cache

C14_Step ==
    /\ cache' # cache =>
          \/ \E e \in Calls' : e.op = "signIn" /\ e.res.ok
          \/ \E e \in Calls' : e.op = "signOut" /\ cache' = Null
          \/ C14_Refreshed
    /\ \A e \in Calls' :
          /\ (e.op = "signIn" /\ e.res.ok) =>
                /\ cache' # Null
                /\ cache'.user = e.arg.email
                /\ cache'.session = e.res.val
          /\ (e.op = "signIn" /\ ~e.res.ok) => cache' = cache
          /\ e.op \in {"signUp", "confirmSignUp", "healthCheck"} => cache' = cache
    /\ C14_RefreshStarts

C14_CacheWriters == [][C14_Step]_vars

\* C14's case: a getCurrentSession found the cached session expired and the
\* cache now holds the refreshed tokens instead.
C14_Witness ==
    \E e \in Sessions :
        /\ e.before # cache
        /\ e.before # Null
        /\ cache # Null
        /\ e.val = cache.session

\* C15: when getCurrentSession yields no session on load, checkAuth
\* navigates to "/login", makes no API call and isAuthenticated stays null,
\* so the notes UI is never rendered and none of its handlers runs;
\* isAuthenticated becomes true only when checkAuth's getCurrentSession
\* yielded a session; on load getMessages is called only after getMe
\* succeeded.
C15_By(e, op) == e.h = "checkAuth" /\ e.op = op

C15_Gated ==
    /\ \A t \in InFlight :
          t.h \in HomeHandlers =>
              /\ route = "/"
              /\ t.op \in AuthOps => home.isAuthenticated = "true"
              /\ C15_By(t, "getMessages") => home.user # Null
    /\ \A e \in Calls :
          (e.h \in HomeHandlers /\ e.op \in AuthOps) =>
              /\ home.isAuthenticated = "true"
              /\ C15_By(e, "getMessages") => home.user # Null

C15_Step ==
    /\ \A e \in Calls' :
          (C15_By(e, "getCurrentSession") /\ e.res.val = Null) =>
              /\ route' = "/login"
              /\ home'.isAuthenticated = "null"
              /\ Calls' = {e}
              /\ \A t \in InFlight' : t.h \notin HomeHandlers
    /\ (home.isAuthenticated = "null" /\ home'.isAuthenticated = "true") =>
          \E e \in Calls' : C15_By(e, "getCurrentSession") /\ e.res.val # Null
    /\ \A i \in Slots :
          (threads[i] # Idle /\ C15_By(threads[i], "getMe")
             /\ threads'[i] # Idle /\ C15_By(threads'[i], "getMessages")) =>
              \E e \in Calls' : C15_By(e, "getMe") /\ e.res.ok
    /\ \A e \in Calls' :
          (C15_By(e, "getMe") /\ ~e.res.ok) =>
              /\ \A t \in InFlight' : t.h # "checkAuth"
              /\ \A f \in Calls' : ~C15_By(f, "getMessages")
    /\ C15_Gated'

C15_HomeGating == [][C15_Step]_vars

\* C15's case: Home loaded for a user who had signed in, the session had
\* expired beyond refresh, and checkAuth sent them to the login page.
C15_Witness ==
    \E e \in Calls :
        /\ C15_By(e, "getCurrentSession")
        /\ e.res.val = Null
        /\ authed = "in"
        /\ route = "/login"
        /\ InFlight = {}

====
